---- MODULE Spec2Model ----
(***************************************************************************)
(* Model of src/src/hf_model_checker.py: the memory estimator, the         *)
(* performance classifier, the file grouper and the repository analyzer.   *)
(*                                                                         *)
(* Strings are sequences of one-character strings, so that upper(),        *)
(* "in", startswith(), endswith() and split() are computed, not assumed.   *)
(* The three URL markers "huggingface.co/", "/blob/main/" and              *)
(* "/tree/main/" are single elements of such a sequence.                   *)
(* Sizes are whole gigabytes; multipliers, estimates and memory figures    *)
(* are in tenths (1.3 is 13, 16GB of RAM is 160), so the arithmetic of     *)
(* the code is exact integer arithmetic here.                              *)
(***************************************************************************)
EXTENDS Integers, Sequences, FiniteSets, TLC

VARIABLES
    table,          \* QUANT_MULTIPLIERS, in stored (file) order
    call,           \* the last direct call of a pure function and its result
    repo_url,       \* the argument of analyze_huggingface_url
    siblings,       \* the remote listing of every existing repository
    ram_gb,         \* what get_system_memory reports (tenths of a GB)
    vram_gb,
    pc,             \* position of the run of analyze_huggingface_url
    path_part,
    repo_id,
    file_path,
    subfolder,
    all_files,
    gguf_files,
    grouped_files,
    viable_quants,
    output,         \* what console.print has been given, in order
    fetches         \* calls of api.model_info so far

vars == <<table, call, repo_url, siblings, ram_gb, vram_gb, pc, path_part,
          repo_id, file_path, subfolder, all_files, gguf_files,
          grouped_files, viable_quants, output, fetches>>

runVars == <<repo_url, siblings, ram_gb, vram_gb, pc, path_part,
             repo_id, file_path, subfolder, all_files, gguf_files,
             grouped_files, viable_quants, output, fetches>>

----------------------------------------------------------------------------
\* Bounds of the model.

\* longest multiplier table explored
MaxKeys == 2
\* most files in a listing or in a file list given to group_split_files
MaxFiles == 3
\* largest figure given to get_performance_label directly
MaxMem == 4

----------------------------------------------------------------------------
\* Strings.

LowerLetters == <<"a","b","c","d","e","f","g","h","i","j","k","l","m","n","o","p","q","r","s","t","u","v","w","x","y","z">>
UpperLetters == <<"A","B","C","D","E","F","G","H","I","J","K","L","M","N","O","P","Q","R","S","T","U","V","W","X","Y","Z">>

HF == "huggingface.co/"
BLOB == "/blob/main/"
TREE == "/tree/main/"

\* str.upper() of one character; a URL marker never reaches a comparison
\* with a table key or with "GGUF", so it is left as it is.
UpperChar(c) ==
    IF \E i \in 1..Len(LowerLetters) : LowerLetters[i] = c
    THEN UpperLetters[CHOOSE i \in 1..Len(LowerLetters) : LowerLetters[i] = c]
    ELSE c

\* str.upper()
Upper(s) == [i \in 1..Len(s) |-> UpperChar(s[i])]

\* sub in s
Contains(sub, s) ==
    \E i \in 0..(Len(s) - Len(sub)) : SubSeq(s, i + 1, i + Len(sub)) = sub

\* s.startswith(pre)
StartsWith(s, pre) == Len(pre) <= Len(s) /\ SubSeq(s, 1, Len(pre)) = pre

\* s.endswith(suf)
EndsWith(s, suf) ==
    Len(suf) <= Len(s) /\ SubSeq(s, Len(s) - Len(suf) + 1, Len(s)) = suf

\* positions of the marker m in s
Occurrences(m, s) == {i \in 1..Len(s) : s[i] = m}

Least(S) == CHOOSE x \in S : \A y \in S : x <= y

\* s.split(m)[0], also the first half of s.split(m, 1)
BeforeFirst(s, m) ==
    IF Occurrences(m, s) = {} THEN s
    ELSE SubSeq(s, 1, Least(Occurrences(m, s)) - 1)

\* the second half of s.split(m, 1), for m in s
AfterFirst(s, m) == SubSeq(s, Least(Occurrences(m, s)) + 1, Len(s))

\* s.split(m)[1], for m in s
SecondPart(s, m) == BeforeFirst(AfterFirst(s, m), m)

\* what is left of a marker when rstrip('/') takes its last character
Stripped(m) ==
    IF m = HF THEN "huggingface.co"
    ELSE IF m = BLOB THEN "/blob/main"
    ELSE "/tree/main"

\* s.rstrip('/')
RECURSIVE RStrip(_)
RStrip(s) ==
    IF s = <<>> THEN s
    ELSE IF s[Len(s)] = "/" THEN RStrip(SubSeq(s, 1, Len(s) - 1))
    ELSE IF s[Len(s)] \in {HF, BLOB, TREE}
         THEN SubSeq(s, 1, Len(s) - 1) \o <<Stripped(s[Len(s)])>>
    ELSE s

----------------------------------------------------------------------------
\* The multiplier table.

\* overhead_multiplier when no key matches: 2.5
DefaultMultiplier == 25
\* attention_overhead is size_gb * 0.1
AttentionOverhead == 1

\* The keys a quant_multipliers.json is drawn from; "q5_k" is a key written
\* in lower case.
KeyPool ==
    { [key |-> <<"Q","4","_","K","_","M">>, mult |-> 13],
      [key |-> <<"Q","4","_","K">>,   mult |-> 12],
      [key |-> <<"Q","8","_","0">>,   mult |-> 11],
      [key |-> <<"q","5","_","k">>,   mult |-> 15] }

\* json.load keeps the file's order and one entry per key
Tables ==
    {t \in UNION {[1..n -> KeyPool] : n \in 0..MaxKeys} :
        \A i, j \in 1..Len(t) : i # j => t[i].key # t[j].key}

----------------------------------------------------------------------------
\* estimate_ram_requirement

\* the entries the loop "for quant, mult in QUANT_MULTIPLIERS.items()" accepts
MatchingQuant(file_upper) ==
    {i \in 1..Len(table) : Contains(table[i].key, file_upper)}

\* the entry at which the loop breaks: the last match instead of the first
FirstQuantMutant(file_upper) ==
    CHOOSE i \in MatchingQuant(file_upper) :
        \A j \in MatchingQuant(file_upper) : j <= i
\* the entry at which the loop breaks
FirstQuant(file_upper) == Least(MatchingQuant(file_upper))

overhead_multiplier(file_upper) ==
    IF MatchingQuant(file_upper) = {} THEN DefaultMultiplier
    ELSE table[FirstQuant(file_upper)].mult

estimate_ram_requirement(file_name, file_size) ==
    LET size_gb == file_size
        file_upper == Upper(file_name)
        base_ram == size_gb * overhead_multiplier(file_upper)
        attention_overhead == size_gb * AttentionOverhead
    IN  base_ram + attention_overhead

----------------------------------------------------------------------------
\* get_performance_label

GpuReadyText == <<"[","g","r","e","e","n","]","G","P","U","-","R","e","a","d","y","[","/","g","r","e","e","n","]">>
TooLargeText == <<"[","r","e","d","]","T","o","o"," ","l","a","r","g","e","[","/","r","e","d","]">>
SlowText == <<"[","y","e","l","l","o","w","]","W","i","l","l"," ","b","e"," ","s","l","o","w","[","/","y","e","l","l","o","w","]">>
ReadyText == <<"[","g","r","e","e","n","]","R","e","a","d","y","[","/","g","r","e","e","n","]">>

NoLabel == [text |-> <<>>, need |-> 0, avail |-> 0]

\* the second test compares with user_ram_gb * 0.5; a mutant takes it for
\* the whole of the RAM
get_performance_label_mutant(estimated_ram_needed, user_ram_gb, vram) ==
    IF vram >= estimated_ram_needed
    THEN [text |-> GpuReadyText, need |-> estimated_ram_needed, avail |-> vram]
    ELSE IF estimated_ram_needed >= user_ram_gb
    THEN [text |-> TooLargeText, need |-> estimated_ram_needed, avail |-> user_ram_gb]
    ELSE IF 2 * estimated_ram_needed > user_ram_gb
    THEN [text |-> SlowText, need |-> estimated_ram_needed, avail |-> user_ram_gb]
    ELSE [text |-> ReadyText, need |-> estimated_ram_needed, avail |-> user_ram_gb]
get_performance_label(estimated_ram_needed, user_ram_gb, vram) ==
    IF vram >= estimated_ram_needed
    THEN [text |-> GpuReadyText, need |-> estimated_ram_needed, avail |-> vram]
    ELSE IF estimated_ram_needed > user_ram_gb
    THEN [text |-> TooLargeText, need |-> estimated_ram_needed, avail |-> user_ram_gb]
    ELSE IF 2 * estimated_ram_needed > user_ram_gb
    THEN [text |-> SlowText, need |-> estimated_ram_needed, avail |-> user_ram_gb]
    ELSE [text |-> ReadyText, need |-> estimated_ram_needed, avail |-> user_ram_gb]

----------------------------------------------------------------------------
\* group_split_files

\* the _L / _M / _S / _XS / _XXS cascade
size_variant(filename_upper) ==
    IF Contains(<<"_","L">>, filename_upper) THEN <<"_","L">>
    ELSE IF Contains(<<"_","M">>, filename_upper) THEN <<"_","M">>
    ELSE IF Contains(<<"_","S">>, filename_upper) THEN <<"_","S">>
    ELSE IF Contains(<<"_","X","S">>, filename_upper) THEN <<"_","X","S">>
    ELSE IF Contains(<<"_","X","X","S">>, filename_upper) THEN <<"_","X","X","S">>
    ELSE <<>>

\* the key the loop "for base_quant in QUANT_MULTIPLIERS.keys()" breaks at;
\* 0 when it runs to its end
base_quant(filename_upper) ==
    IF MatchingQuant(filename_upper) = {} THEN 0
    ELSE FirstQuant(filename_upper)

\* quant_type after the inner loop; None and "" are both falsy and both <<>>
quant_type_of(f) ==
    LET filename_upper == Upper(f.rfilename)
    IN  IF base_quant(filename_upper) = 0 THEN <<>>
        ELSE table[base_quant(filename_upper)].key \o size_variant(filename_upper)

\* one turn of the loop over files, on the dict built so far
\* mutant: a file of a label already seen replaces the group
AddToGroupMutant(grouped, f) ==
    LET qt == quant_type_of(f)
    IN  IF qt = <<>> THEN grouped
        ELSE IF \E i \in 1..Len(grouped) : grouped[i].label = qt
        THEN [i \in 1..Len(grouped) |->
                IF grouped[i].label = qt
                THEN [label |-> qt, size |-> f.size, files |-> <<f>>]
                ELSE grouped[i]]
        ELSE Append(grouped, [label |-> qt, size |-> f.size, files |-> <<f>>])
AddToGroup(grouped, f) ==
    LET qt == quant_type_of(f)
    IN  IF qt = <<>> THEN grouped
        ELSE IF \E i \in 1..Len(grouped) : grouped[i].label = qt
        THEN [i \in 1..Len(grouped) |->
                IF grouped[i].label = qt
                THEN [label |-> qt,
                      size |-> grouped[i].size + f.size,
                      files |-> Append(grouped[i].files, f)]
                ELSE grouped[i]]
        ELSE Append(grouped, [label |-> qt, size |-> f.size, files |-> <<f>>])

RECURSIVE GroupFrom(_, _)
GroupFrom(grouped, files) ==
    IF files = <<>> THEN grouped
    ELSE GroupFrom(AddToGroup(grouped, Head(files)), Tail(files))

\* the dict returned, as the sequence of its items in insertion order
group_split_files(files) == GroupFrom(<<>>, files)

----------------------------------------------------------------------------
\* Files.

FileUniverse ==
    << [rfilename |-> <<"m","o","d","e","l","-","Q","4","_","K","_","M","-","0","0","0","0","1",".","g","g","u","f">>, size |-> 4],
       [rfilename |-> <<"m","o","d","e","l","-","Q","4","_","K","_","M","-","0","0","0","0","2",".","g","g","u","f">>, size |-> 4],
       [rfilename |-> <<"m","o","d","e","l","-","Q","8","_","0",".","g","g","u","f">>, size |-> 9],
       [rfilename |-> <<"m","y","_","m","o","d","e","l","-","Q","4","_","K",".","g","g","u","f">>, size |-> 3],
       [rfilename |-> <<"m","o","d","e","l","-","q","4","_","k","_","s",".","g","g","u","f">>, size |-> 4],
       [rfilename |-> <<"l","l","a","m","a","-","Q","5","_","K",".","g","g","u","f">>, size |-> 5],
       [rfilename |-> <<"m","o","d","e","l",".","s","a","f","e","t","e","n","s","o","r","s">>, size |-> 6],
       [rfilename |-> <<"s","u","b","/","p","y","t","o","r","c","h","_","m","o","d","e","l",".","b","i","n">>, size |-> 1] >>

\* the files of FileUniverse at the positions S, in the universe's order
RECURSIVE Pick(_, _)
Pick(S, i) ==
    IF i > Len(FileUniverse) THEN <<>>
    ELSE IF i \in S THEN <<FileUniverse[i]>> \o Pick(S, i + 1)
    ELSE Pick(S, i + 1)

FileLists ==
    {Pick(S, 1) : S \in {T \in SUBSET (1..Len(FileUniverse)) : Cardinality(T) <= MaxFiles}}

RECURSIVE SumSizes(_)
SumSizes(fs) == IF fs = <<>> THEN 0 ELSE Head(fs).size + SumSizes(Tail(fs))

----------------------------------------------------------------------------
\* Direct calls of the pure functions.

NoCall ==
    [fn |-> "none", name |-> <<>>, size |-> 0, est |-> 0,
     need |-> 0, ram |-> 0, vram |-> 0, label |-> NoLabel,
     files |-> <<>>, grouped |-> <<>>, estimates |-> <<>>]

\* estimate_ram_requirement(quant_type, group['size']) of every group, as
\* the loop over grouped_files.items() computes it
GroupEstimates(grouped) ==
    [i \in 1..Len(grouped) |->
        estimate_ram_requirement(grouped[i].label, grouped[i].size)]

\* the names and labels estimate_ram_requirement is called with directly
Names ==
    {FileUniverse[i].rfilename : i \in 1..Len(FileUniverse)}
        \cup {k.key \o v : k \in KeyPool, v \in {<<>>, <<"_","M">>, <<"_","S">>}}

IdleRun ==
    /\ repo_url = <<>> /\ siblings = <<>> /\ ram_gb = 0 /\ vram_gb = 0
    /\ pc = "idle" /\ path_part = <<>> /\ repo_id = <<>> /\ file_path = <<>>
    /\ subfolder = <<>> /\ all_files = <<>> /\ gguf_files = <<>>
    /\ grouped_files = <<>> /\ viable_quants = <<>> /\ output = <<>>
    /\ fetches = 0

FnInit == table \in Tables /\ call = NoCall /\ IdleRun

CallEstimate ==
    /\ call.fn = "none"
    /\ \E n \in Names, s \in 0..MaxMem :
        /\ call' = [NoCall EXCEPT !.fn = "estimate", !.name = n, !.size = s,
                                  !.est = estimate_ram_requirement(n, s)]
        /\ UNCHANGED <<table, runVars>>

CallClassify ==
    /\ call.fn = "none"
    /\ \E n \in 0..MaxMem, r \in 0..MaxMem, v \in 0..MaxMem :
        /\ call' = [NoCall EXCEPT !.fn = "classify", !.need = n, !.ram = r,
                                  !.vram = v,
                                  !.label = get_performance_label(n, r, v)]
        /\ UNCHANGED <<table, runVars>>

CallGroup ==
    /\ call.fn = "none"
    /\ \E fs \in FileLists :
        /\ call' = [NoCall EXCEPT !.fn = "group", !.files = fs,
                                  !.grouped = group_split_files(fs),
                                  !.estimates = GroupEstimates(group_split_files(fs))]
        /\ UNCHANGED <<table, runVars>>

FnNext == CallEstimate \/ CallClassify \/ CallGroup

FnSpec == FnInit /\ [][FnNext]_vars

----------------------------------------------------------------------------
\* analyze_huggingface_url

\* the repositories api.model_info finds; any other identifier raises
Repos == {<<"o","r","g","/","l","l","m","-","g","g","u","f">>, <<"o","r","g","/","l","l","m">>}

Urls ==
    { <<"h","t","t","p","s",":","/","/","e","x","a","m","p","l","e",".","c","o","m","/","o","r","g","/","l","l","m">>,
      <<"h","t","t","p","s",":","/","/","huggingface.co/">>,
      <<"h","t","t","p","s",":","/","/","huggingface.co/","o","r","g","/","n","o","n","e">>,
      <<"h","t","t","p","s",":","/","/","huggingface.co/","o","r","g","/","l","l","m">>,
      <<"h","t","t","p","s",":","/","/","huggingface.co/","o","r","g","/","l","l","m","-","g","g","u","f">>,
      <<"h","t","t","p","s",":","/","/","huggingface.co/","o","r","g","/","l","l","m","-","g","g","u","f","/">>,
      <<"h","t","t","p","s",":","/","/","huggingface.co/","o","r","g","/","l","l","m","/blob/main/","m","o","d","e","l",".","s","a","f","e","t","e","n","s","o","r","s">>,
      <<"h","t","t","p","s",":","/","/","huggingface.co/","o","r","g","/","l","l","m","-","g","g","u","f","/blob/main/","m","o","d","e","l","-","Q","8","_","0",".","g","g","u","f">>,
      <<"h","t","t","p","s",":","/","/","huggingface.co/","o","r","g","/","l","l","m","/tree/main/","s","u","b">>,
      <<"h","t","t","p","s",":","/","/","huggingface.co/","o","r","g","/","l","l","m","-","g","g","u","f","/tree/main/","s","u","b">>,
      <<"h","t","t","p","s",":","/","/","huggingface.co/","o","r","g","/","l","l","m","/tree/main/">>,
      <<"h","t","t","p","s",":","/","/","huggingface.co/","o","r","g","/","l","l","m","/tree/main/","s","u","b","/blob/main/","m","o","d","e","l",".","s","a","f","e","t","e","n","s","o","r","s">> }

QuantEntry(k) == CHOOSE e \in KeyPool : e.key = k

\* the tables the runs are made with
RunTables ==
    { <<QuantEntry(<<"Q","4","_","K","_","M">>), QuantEntry(<<"Q","4","_","K">>), QuantEntry(<<"Q","8","_","0">>)>>,
      <<QuantEntry(<<"Q","4","_","K">>), QuantEntry(<<"Q","4","_","K","_","M">>), QuantEntry(<<"Q","8","_","0">>)>>,
      <<QuantEntry(<<"Q","8","_","0">>), QuantEntry(<<"Q","4","_","K","_","M">>)>>,
      <<QuantEntry(<<"Q","4","_","K">>), QuantEntry(<<"Q","8","_","0">>)>>,
      <<QuantEntry(<<"q","5","_","k">>)>> }

\* total RAM and VRAM of the machines the runs are made on
RamChoices == {40, 160, 320}
VramChoices == {0, 60}

\* one console.print, or the two of the not-found message
Entry(kind) ==
    [kind |-> kind, subject |-> <<>>, size |-> 0, perf |-> NoLabel,
     viable |-> <<>>, recommended |-> <<>>]

Init ==
    /\ table \in RunTables
    /\ call = NoCall
    /\ repo_url \in Urls
    /\ siblings \in FileLists
    /\ ram_gb \in RamChoices
    /\ vram_gb \in VramChoices
    /\ pc = "start"
    /\ path_part = <<>> /\ repo_id = <<>> /\ file_path = <<>>
    /\ subfolder = <<>> /\ all_files = <<>> /\ gguf_files = <<>>
    /\ grouped_files = <<>> /\ viable_quants = <<>> /\ output = <<>>
    /\ fetches = 0

\* the URL test, rstrip and the two splits; parts[1] raises IndexError when
\* rstrip has taken the last character of the only "huggingface.co/"
CheckUrl ==
    /\ pc = "start"
    /\ IF ~Contains(<<HF>>, repo_url)
       THEN /\ output' = Append(output, Entry("InvalidUrl"))
            /\ pc' = "done"
            /\ UNCHANGED <<path_part, repo_id>>
       ELSE LET url == RStrip(repo_url)
                part == SecondPart(url, HF)
            IN  IF ~Contains(<<HF>>, url)
                THEN /\ pc' = "raised"
                     /\ UNCHANGED <<path_part, repo_id, output>>
                ELSE /\ path_part' = part
                     /\ repo_id' = IF Contains(<<TREE>>, part)
                                   THEN BeforeFirst(part, TREE)
                                   ELSE IF Contains(<<BLOB>>, part)
                                   THEN BeforeFirst(part, BLOB)
                                   ELSE part
                     /\ pc' = "lookup"
                     /\ UNCHANGED output
    /\ UNCHANGED <<table, call, repo_url, siblings, ram_gb, vram_gb, file_path,
                   subfolder, all_files, gguf_files, grouped_files,
                   viable_quants, fetches>>

\* api.model_info(repo_id) inside try/except
Lookup ==
    /\ pc = "lookup"
    /\ fetches' = fetches + 1
    /\ IF repo_id \in Repos
       THEN pc' = "blob" /\ UNCHANGED output
       ELSE pc' = "done" /\ output' = Append(output, Entry("ModelNotFound"))
    /\ UNCHANGED <<table, call, repo_url, siblings, ram_gb, vram_gb, path_part,
                   repo_id, file_path, subfolder, all_files, gguf_files,
                   grouped_files, viable_quants>>

\* next((f for f in all_files if f.rfilename == file_path), None)
TargetFile(files, path) ==
    LET hits == {i \in 1..Len(files) : files[i].rfilename = path}
    IN  IF hits = {} THEN <<>> ELSE <<files[Least(hits)]>>

\* the "/blob/main/" branch; a second model_info, outside any try
BlobFile ==
    /\ pc = "blob"
    /\ IF ~Contains(<<BLOB>>, path_part)
       THEN /\ pc' = "repo"
            /\ UNCHANGED <<repo_id, file_path, all_files, output, fetches>>
       ELSE LET rid == BeforeFirst(path_part, BLOB)
                path == AfterFirst(path_part, BLOB)
                target_file == TargetFile(siblings, path)
            IN  /\ repo_id' = rid
                /\ file_path' = path
                /\ fetches' = fetches + 1
                /\ IF rid \notin Repos
                   THEN pc' = "raised" /\ UNCHANGED <<all_files, output>>
                   ELSE /\ all_files' = siblings
                        /\ IF target_file # <<>>
                           THEN /\ output' = Append(output,
                                     [Entry("FilePanel") EXCEPT
                                        !.subject = path,
                                        !.size = target_file[1].size,
                                        !.perf = get_performance_label(
                                            estimate_ram_requirement(path, target_file[1].size),
                                            ram_gb, vram_gb)])
                                /\ pc' = "done"
                           ELSE pc' = "repo" /\ UNCHANGED output
    /\ UNCHANGED <<table, call, repo_url, siblings, ram_gb, vram_gb, path_part,
                   subfolder, gguf_files, grouped_files, viable_quants>>

\* the "/tree/main/" split and the model_info of the repository
\* mutant: the listing is asked for twice
RepoFetchMutant ==
    /\ pc = "repo"
    /\ LET rid == IF Contains(<<TREE>>, path_part)
                  THEN BeforeFirst(path_part, TREE) ELSE repo_id
       IN  /\ repo_id' = rid
           /\ subfolder' = IF Contains(<<TREE>>, path_part)
                           THEN AfterFirst(path_part, TREE) ELSE <<>>
           /\ fetches' = fetches + 2
           /\ IF rid \in Repos
              THEN pc' = "gguf" /\ all_files' = siblings
              ELSE pc' = "raised" /\ UNCHANGED all_files
    /\ UNCHANGED <<table, call, repo_url, siblings, ram_gb, vram_gb, path_part,
                   file_path, gguf_files, grouped_files, viable_quants, output>>
RepoFetch ==
    /\ pc = "repo"
    /\ LET rid == IF Contains(<<TREE>>, path_part)
                  THEN BeforeFirst(path_part, TREE) ELSE repo_id
       IN  /\ repo_id' = rid
           /\ subfolder' = IF Contains(<<TREE>>, path_part)
                           THEN AfterFirst(path_part, TREE) ELSE <<>>
           /\ fetches' = fetches + 1
           /\ IF rid \in Repos
              THEN pc' = "gguf" /\ all_files' = siblings
              ELSE pc' = "raised" /\ UNCHANGED all_files
    /\ UNCHANGED <<table, call, repo_url, siblings, ram_gb, vram_gb, path_part,
                   file_path, gguf_files, grouped_files, viable_quants, output>>

\* the loop over grouped_files.items(): the groups that are not Too large
Viable(grouped) ==
    LET entry(g) ==
            [quant |-> g.label, size |-> g.size,
             perf |-> get_performance_label(
                          estimate_ram_requirement(g.label, g.size), ram_gb, vram_gb)]
    IN  SelectSeq([i \in 1..Len(grouped) |-> entry(grouped[i])],
                  LAMBDA v : ~Contains(<<"T","o","o"," ","l","a","r","g","e">>, v.perf.text))

RECURSIVE InsertBySize(_, _)
InsertBySize(s, x) ==
    IF s = <<>> THEN <<x>>
    ELSE IF x.size < Head(s).size THEN <<x>> \o s
    ELSE <<Head(s)>> \o InsertBySize(Tail(s), x)

\* viable_quants.sort(key=lambda x: x[1]), which is stable
RECURSIVE SortBySize(_)
SortBySize(s) ==
    IF s = <<>> THEN s
    ELSE InsertBySize(SortBySize(SubSeq(s, 1, Len(s) - 1)), s[Len(s)])

\* the GGUF branch, up to the table header
GgufScan ==
    /\ pc = "gguf"
    /\ IF ~Contains(<<"G","G","U","F">>, Upper(repo_id))
       THEN /\ pc' = "select"
            /\ UNCHANGED <<gguf_files, grouped_files, viable_quants, output>>
       ELSE LET found == SelectSeq(all_files,
                             LAMBDA f : EndsWith(f.rfilename, <<".","g","g","u","f">>))
            IN  /\ gguf_files' = found
                /\ IF found = <<>>
                   THEN /\ output' = Append(output, Entry("NoGGUF"))
                        /\ pc' = "done"
                        /\ UNCHANGED <<grouped_files, viable_quants>>
                   ELSE /\ grouped_files' = group_split_files(found)
                        /\ viable_quants' =
                             SortBySize(Viable(group_split_files(found)))
                        /\ pc' = "select"
                        /\ UNCHANGED output
    /\ UNCHANGED <<table, call, repo_url, siblings, ram_gb, vram_gb, path_part,
                   repo_id, file_path, subfolder, all_files, fetches>>

\* min(s, key=lambda x: x[1]): the first of the smallest
MinBySize(s) ==
    s[Least({i \in 1..Len(s) : \A j \in 1..Len(s) : s[i].size <= s[j].size})]

\* max(s, key=lambda x: x[1]): the first of the largest
MaxBySize(s) ==
    s[Least({i \in 1..Len(s) : \A j \in 1..Len(s) : s[j].size <= s[i].size})]

\* the recommendation; mutant: the smallest GPU-Ready group
RecommendedMutant(viable) ==
    LET gpu_ready_quants ==
            SelectSeq(viable, LAMBDA v : Contains(<<"G","P","U","-","R","e","a","d","y">>, v.perf.text))
        ready_quants ==
            SelectSeq(viable, LAMBDA v : /\ Contains(<<"R","e","a","d","y">>, v.perf.text)
                                         /\ ~Contains(<<"G","P","U","-","R","e","a","d","y">>, v.perf.text))
        slow_quants ==
            SelectSeq(viable, LAMBDA v : Contains(<<"W","i","l","l"," ","b","e"," ","s","l","o","w">>, v.perf.text))
    IN  IF \A i \in 1..Len(viable) : Contains(<<"W","i","l","l"," ","b","e"," ","s","l","o","w">>, viable[i].perf.text)
        THEN MinBySize(viable).quant
        ELSE IF gpu_ready_quants # <<>> THEN MinBySize(gpu_ready_quants).quant
        ELSE IF ready_quants # <<>> THEN MaxBySize(ready_quants).quant
        ELSE MinBySize(slow_quants).quant
Recommended(viable) ==
    LET gpu_ready_quants ==
            SelectSeq(viable, LAMBDA v : Contains(<<"G","P","U","-","R","e","a","d","y">>, v.perf.text))
        ready_quants ==
            SelectSeq(viable, LAMBDA v : /\ Contains(<<"R","e","a","d","y">>, v.perf.text)
                                         /\ ~Contains(<<"G","P","U","-","R","e","a","d","y">>, v.perf.text))
        slow_quants ==
            SelectSeq(viable, LAMBDA v : Contains(<<"W","i","l","l"," ","b","e"," ","s","l","o","w">>, v.perf.text))
    IN  IF \A i \in 1..Len(viable) : Contains(<<"W","i","l","l"," ","b","e"," ","s","l","o","w">>, viable[i].perf.text)
        THEN MinBySize(viable).quant
        ELSE IF gpu_ready_quants # <<>> THEN MaxBySize(gpu_ready_quants).quant
        ELSE IF ready_quants # <<>> THEN MaxBySize(ready_quants).quant
        ELSE MinBySize(slow_quants).quant

\* total_size_bytes; mutant: the subfolder is not looked at
TotalSizeMutant(files, sub) ==
    SumSizes(SelectSeq(files, LAMBDA f :
        EndsWith(f.rfilename, <<".","s","a","f","e","t","e","n","s","o","r","s">>) \/ EndsWith(f.rfilename, <<".","b","i","n">>)))
TotalSize(files, sub) ==
    SumSizes(SelectSeq(files, LAMBDA f :
        /\ EndsWith(f.rfilename, <<".","s","a","f","e","t","e","n","s","o","r","s">>) \/ EndsWith(f.rfilename, <<".","b","i","n">>)
        /\ ~(sub # <<>> /\ ~StartsWith(f.rfilename, sub))))

\* "if viable_quants: ... else: ..."
Select ==
    /\ pc = "select"
    /\ IF viable_quants # <<>>
       THEN output' = Append(output,
                [Entry("QuantPanel") EXCEPT
                    !.viable = viable_quants,
                    !.recommended = Recommended(viable_quants)])
       ELSE LET total_size_bytes == TotalSize(all_files, subfolder)
            IN  IF total_size_bytes = 0
                THEN output' = Append(output, Entry("NoModelFiles"))
                ELSE output' = Append(output,
                        [Entry("RepoPanel") EXCEPT
                            !.size = total_size_bytes,
                            !.perf = get_performance_label(
                                estimate_ram_requirement(repo_id, total_size_bytes),
                                ram_gb, vram_gb)])
    /\ pc' = "done"
    /\ UNCHANGED <<table, call, repo_url, siblings, ram_gb, vram_gb, path_part,
                   repo_id, file_path, subfolder, all_files, gguf_files,
                   grouped_files, viable_quants, fetches>>

Next == CheckUrl \/ Lookup \/ BlobFile \/ RepoFetch \/ GgufScan \/ Select

Spec == Init /\ [][Next]_vars

----------------------------------------------------------------------------
\* Properties of the pure functions, under FnSpec.

RECURSIVE SumGroups(_)
SumGroups(gs) == IF gs = <<>> THEN 0 ELSE Head(gs).size + SumGroups(Tail(gs))

SeqSet(s) == {s[i] : i \in 1..Len(s)}

\* a table key occurs, as stored, in the uppercased name
KeyOccurs(k, name) == Contains(k.key, Upper(name))
HasKey(name) == \E i \in 1..Len(table) : KeyOccurs(table[i], name)

\* the uppercased key occurs in the uppercased name
KeyOccursAnyCase(k, name) == Contains(Upper(k.key), Upper(name))

\* the key group_split_files matched in a name, <<>> when none
MatchedKey(name) ==
    IF base_quant(Upper(name)) = 0 THEN <<>>
    ELSE table[base_quant(Upper(name))].key

Orderings(n) ==
    {p \in [1..n -> 1..n] : \A i, j \in 1..n : i # j => p[i] # p[j]}

\* a dict of groups without the order of its keys and of its member lists
Unordered(grouped) ==
    {[label |-> g.label, size |-> g.size, files |-> SeqSet(g.files)] :
        g \in SeqSet(grouped)}

\* C3: get_performance_label returns one of the four classes: GPU-Ready when
\* vram >= need whatever the ram; otherwise Too large when need > ram,
\* Will be slow when ram * 0.5 < need <= ram, Ready when need <= ram * 0.5.
C3_LabelRules ==
    call.fn = "classify" =>
        /\ call.label.text \in {GpuReadyText, TooLargeText, SlowText, ReadyText}
        /\ call.vram >= call.need => call.label.text = GpuReadyText
        /\ (call.vram < call.need /\ call.need > call.ram)
              => call.label.text = TooLargeText
        /\ (call.vram < call.need /\ call.ram < 2 * call.need
              /\ call.need <= call.ram) => call.label.text = SlowText
        /\ (call.vram < call.need /\ 2 * call.need <= call.ram)
              => call.label.text = ReadyText

\* a need equal to the whole RAM, above the VRAM, was classified Will be slow
C3_Witness ==
    /\ call.fn = "classify"
    /\ call.vram < call.need
    /\ call.need = call.ram
    /\ call.label.text = SlowText

\* C4: estimate_ram_requirement returns size_gb * (m + 0.1), m the
\* multiplier of the first key in table order occurring in the uppercased
\* label, 2.5 when none occurs; the first key decides when several occur,
\* and the result is never negative.
C4_FirstKeyDecides ==
    call.fn = "estimate" =>
        LET hits == {i \in 1..Len(table) : KeyOccurs(table[i], call.name)}
        IN  /\ call.est >= 0
            /\ hits = {} =>
                 call.est = call.size * (DefaultMultiplier + AttentionOverhead)
            /\ \A i \in hits :
                 (\A j \in hits : i <= j) =>
                     call.est = call.size * (table[i].mult + AttentionOverhead)

\* two keys occur in the label, the first in table order is the shorter one
\* with the smaller multiplier, and it decided the estimate
C4_Witness ==
    /\ call.fn = "estimate"
    /\ call.size > 0
    /\ Len(table) = 2
    /\ KeyOccurs(table[1], call.name) /\ KeyOccurs(table[2], call.name)
    /\ Len(table[1].key) < Len(table[2].key)
    /\ table[1].mult < table[2].mult
    /\ call.est = call.size * (table[1].mult + AttentionOverhead)

\* C5: every file whose uppercased name contains a key is in exactly one
\* group and a file containing none is in no group, so the group totals sum
\* to the sizes of the key-matching files; and every permutation of the
\* input gives the same labels, totals and member sets.
C5_GroupingStable ==
    call.fn = "group" =>
        /\ \A f \in SeqSet(call.files) :
             Cardinality({<<i, j>> \in (1..Len(call.grouped)) \X (1..Len(call.files)) :
                            /\ j <= Len(call.grouped[i].files)
                            /\ call.grouped[i].files[j] = f})
               = IF HasKey(f.rfilename) THEN 1 ELSE 0
        /\ SumGroups(call.grouped)
             = SumSizes(SelectSeq(call.files, LAMBDA f : HasKey(f.rfilename)))
        /\ \A p \in Orderings(Len(call.files)) :
             Unordered(group_split_files([i \in 1..Len(call.files) |-> call.files[p[i]]]))
               = Unordered(call.grouped)

\* three files: two shards of one label, a file with no key, and a file of
\* another label; reversing the input changes the order of the output keys
C5_Witness ==
    /\ call.fn = "group"
    /\ Len(call.files) = 3
    /\ \E f \in SeqSet(call.files) : ~HasKey(f.rfilename)
    /\ Len(call.grouped) = 2
    /\ \E i \in 1..2 : Len(call.grouped[i].files) = 1
    /\ group_split_files(<<call.files[3], call.files[2], call.files[1]>>)
         # call.grouped

\* C6: with "Q4_K_M" and "Q8_0" the first keys matching the names, the two
\* Q4_K_M shards (4GB each) and the Q8_0 file (9GB) give exactly the groups
\* "Q4_K_M" of 8GB and "Q8_0" of 9GB; and whenever the matched key ends in
\* a size-variant token the label is that key.
C6_ExampleGroups ==
    call.fn = "group" =>
        /\ ( /\ call.files = SubSeq(FileUniverse, 1, 3)
             /\ MatchedKey(FileUniverse[1].rfilename) = <<"Q","4","_","K","_","M">>
             /\ MatchedKey(FileUniverse[3].rfilename) = <<"Q","8","_","0">> )
           => {[label |-> g.label, size |-> g.size] : g \in SeqSet(call.grouped)}
                = {[label |-> <<"Q","4","_","K","_","M">>, size |-> 8], [label |-> <<"Q","8","_","0">>, size |-> 9]}
        /\ \A g \in SeqSet(call.grouped) : \A f \in SeqSet(g.files) :
             LET k == MatchedKey(f.rfilename)
             IN  (\E v \in {<<"_","L">>, <<"_","M">>, <<"_","S">>, <<"_","X","S">>, <<"_","X","X","S">>} : EndsWith(k, v))
                    => g.label = k

\* C7: the estimate of every group uses the multiplier of the key under
\* which its files were grouped: the first key occurring in the group label
\* is the base key matched in the names of the group's files.
C7_GroupOwnMultiplier ==
    call.fn = "group" =>
        \A i \in 1..Len(call.grouped) : \A f \in SeqSet(call.grouped[i].files) :
            /\ FirstQuant(Upper(call.grouped[i].label))
                 = base_quant(Upper(f.rfilename))
            /\ call.estimates[i]
                 = call.grouped[i].size
                     * (table[base_quant(Upper(f.rfilename))].mult + AttentionOverhead)

\* C10: every key, also one holding lower-case letters, matches a name
\* exactly when the uppercased key occurs in the uppercased name, in
\* estimate_ram_requirement and in group_split_files.
C10_KeysAnyCase ==
    /\ call.fn = "estimate" =>
         LET hits == {i \in 1..Len(table) : KeyOccursAnyCase(table[i], call.name)}
         IN  /\ hits = {} =>
                  call.est = call.size * (DefaultMultiplier + AttentionOverhead)
             /\ \A i \in hits :
                  (\A j \in hits : i <= j) =>
                      call.est = call.size * (table[i].mult + AttentionOverhead)
    /\ call.fn = "group" =>
         \A f \in SeqSet(call.files) :
             (\E i \in 1..Len(table) : KeyOccursAnyCase(table[i], f.rfilename))
                <=> (\E g \in SeqSet(call.grouped) : f \in SeqSet(g.files))

----------------------------------------------------------------------------
\* Properties of the runs of analyze_huggingface_url, under Spec.

Kinds == {output[i].kind : i \in 1..Len(output)}
Panels == {"FilePanel", "QuantPanel", "RepoPanel"}

\* the run got a "/blob/main/<file>" URL, both model_info calls succeeded,
\* and <file> is the name of no entry of the listing
BlobFileAbsent ==
    /\ Contains(<<BLOB>>, path_part)
    /\ fetches >= 2
    /\ pc # "raised"
    /\ \A f \in SeqSet(siblings) : f.rfilename # AfterFirst(path_part, BLOB)

\* C1: a blob URL whose file is in no entry of the listing gives the
\* file-not-found message and no table or panel, whatever the listing holds.
C1_BlobNotFoundMessage ==
    (pc = "done" /\ BlobFileAbsent) =>
        /\ "FileNotFound" \in Kinds
        /\ Kinds \cap Panels = {}

\* the classes of the viable groups, read off the label as the code does not
IsSlow(v) == v.perf.text = SlowText
IsGpuReady(v) == v.perf.text = GpuReadyText
IsPlainReady(v) == v.perf.text = ReadyText

Smallest(S, rec) == \E v \in S : v.quant = rec /\ \A w \in S : v.size <= w.size
Largest(S, rec) == \E v \in S : v.quant = rec /\ \A w \in S : w.size <= v.size

\* C2: the recommended label is that of a viable group: the smallest viable
\* group when all are Will be slow, else the largest GPU-Ready group if
\* there is one, else the largest plain Ready group if there is one, else
\* the smallest Will be slow group.
C2_RecommendationRule ==
    /\ (pc = "done" /\ viable_quants # <<>>) => "QuantPanel" \in Kinds
    /\ \A i \in 1..Len(output) :
         output[i].kind = "QuantPanel" =>
            LET V == SeqSet(viable_quants)
                rec == output[i].recommended
                slow == {v \in V : IsSlow(v)}
                gpu == {v \in V : IsGpuReady(v)}
                ready == {v \in V : IsPlainReady(v)}
            IN  /\ V # {}
                /\ V = slow \cup gpu \cup ready
                /\ \E v \in V : v.quant = rec
                /\ V = slow => Smallest(V, rec)
                /\ (V # slow /\ gpu # {}) => Largest(gpu, rec)
                /\ (V # slow /\ gpu = {} /\ ready # {}) => Largest(ready, rec)
                /\ (V # slow /\ gpu = {} /\ ready = {}) => Smallest(slow, rec)

\* two GPU-Ready groups of different sizes beside a group that is not
\* GPU-Ready, and the larger GPU-Ready one was recommended
C2_Witness ==
    /\ pc = "done"
    /\ Len(output) = 1 /\ output[1].kind = "QuantPanel"
    /\ \E v, w \in SeqSet(viable_quants) :
          /\ IsGpuReady(v) /\ IsGpuReady(w) /\ w.size < v.size
          /\ output[1].recommended = v.quant
    /\ \E v \in SeqSet(viable_quants) : ~IsGpuReady(v)

\* C8 as stated: at most one model_info per run on every path, and none for
\* a URL without "huggingface.co/".
C8_AtMostOneFetch ==
    /\ fetches <= 1
    /\ ~Contains(<<HF>>, repo_url) => fetches = 0

\* C8 amended: at most three model_info calls per run: none when the URL is
\* rejected, one when the lookup fails, two when a blob file is found and on
\* the tree, GGUF and plain paths, three when a blob URL names a file that
\* is not in the listing.
C8_FetchCounts ==
    /\ fetches <= 3
    /\ ~Contains(<<HF>>, repo_url) => fetches = 0
    /\ pc = "done" =>
         fetches = IF "InvalidUrl" \in Kinds THEN 0
                   ELSE IF "ModelNotFound" \in Kinds THEN 1
                   ELSE IF "FilePanel" \in Kinds THEN 2
                   ELSE IF Contains(<<BLOB>>, path_part) THEN 3
                   ELSE 2
    /\ pc = "raised" => fetches \in {0, 2}

\* a finished run that asked three times: the blob file was not listed
C8_Witness ==
    /\ pc = "done"
    /\ fetches = 3
    /\ BlobFileAbsent
    /\ Kinds \cap {"QuantPanel", "RepoPanel", "NoModelFiles", "NoGGUF"} # {}

\* the sizes of the weight files of the listing under the subfolder
RECURSIVE SumOf(_)
SumOf(S) ==
    IF S = {} THEN 0
    ELSE LET f == CHOOSE x \in S : TRUE IN f.size + SumOf(S \ {f})

WeightFiles ==
    {f \in SeqSet(siblings) :
        /\ EndsWith(f.rfilename, <<".","s","a","f","e","t","e","n","s","o","r","s">>) \/ EndsWith(f.rfilename, <<".","b","i","n">>)
        /\ subfolder = <<>> \/ StartsWith(f.rfilename, subfolder)}

\* the run is in the GGUF branch, past the listing, with no viable group
NoViableGroup ==
    /\ Contains(<<"G","G","U","F">>, Upper(repo_id))
    /\ \E f \in SeqSet(all_files) : EndsWith(f.rfilename, <<".","g","g","u","f">>)
    /\ viable_quants = <<>>

\* C9: in a GGUF repository with .gguf files and no viable group the run
\* goes on to the plain weight-file path and ends with the aggregate report
\* of the .safetensors/.bin sizes (under the subfolder), or with the
\* no-model-files message when that sum is zero; never with a
\* recommendation and never silently.
C9_FallThroughToWeights ==
    /\ (pc = "select" /\ NoViableGroup) => ENABLED Select
    /\ (pc = "done" /\ gguf_files # <<>> /\ NoViableGroup) =>
         /\ Len(output) = 1
         /\ output[1].kind = IF SumOf(WeightFiles) = 0
                             THEN "NoModelFiles" ELSE "RepoPanel"
         /\ output[1].size = SumOf(WeightFiles)
         /\ output[1].recommended = <<>>

\* a subfolder run on a GGUF repository whose only group is Too large: the
\* weight file outside the subfolder is left out, the one inside is reported
C9_Witness ==
    /\ pc = "done"
    /\ gguf_files # <<>> /\ NoViableGroup
    /\ grouped_files # <<>>
    /\ subfolder # <<>>
    /\ \E f \in SeqSet(siblings) :
          EndsWith(f.rfilename, <<".","s","a","f","e","t","e","n","s","o","r","s">>) /\ f \notin WeightFiles
    /\ output[1].kind = "RepoPanel"
    /\ output[1].size = SumOf(WeightFiles)

====
